---------------------------- MODULE Spec2Model ----------------------------
(***************************************************************************)
(* Websocket command handlers of the device registry                       *)
(* (homeassistant/components/config/device_registry.py).                   *)
(*                                                                         *)
(* The three commands (list, update, remove_config_entry) run on one event *)
(* loop.  The list and update handlers are @callback functions: each runs  *)
(* to completion in one step.  The removal handler is a coroutine with two *)
(* suspension points: `await loader.async_get_integration` (line 113) and  *)
(* `await component.async_remove_config_entry_device` (line 124).  Between *)
(* suspension points the code of one handler runs without interleaving.    *)
(***************************************************************************)
EXTENDS Integers, Sequences, FiniteSets, TLC

(***************************************************************************)
(* Bounds of the model.                                                    *)
(***************************************************************************)
\* number of websocket commands issued (msg["id"] is 1..MaxReq)
MaxReq == 2

\* device ids a caller may name, and ids of config entries a caller may name
Devices == {"d1", "d2"}
Instances == {"A", "B"}

\* Python's None for scalar fields
None == "None"

\* values the optional string fields may take
AreaIds == {None, "kitchen"}
Names == {None, "lamp"}

(***************************************************************************)
(* Constants of the source.                                                *)
(***************************************************************************)
WS_TYPE_LIST == "config/device_registry/list"
WS_TYPE_UPDATE == "config/device_registry/update"
WS_TYPE_REMOVE == "config/device_registry/remove_config_entry"

ERR_UNKNOWN_ERROR == "unknown_error"
ERR_HOME_ASSISTANT_ERROR == "home_assistant_error"

\* DeviceEntryDisabler.USER.value
DISABLER_USER == "user"

MsgUnknownConfigEntry == "Unknown config entry"
MsgNoRemovalSupport == "Config entry does not support device removal"
MsgUnknownDevice == "Unknown device"
MsgNotInDevice == "Config entry not in device"
MsgIntegrationNotFound == "Integration not found"
MsgRejected == "Failed to remove device entry, rejected by integration"
\* str(exc) of a HomeAssistantError raised by the registry
MsgRegistryError == "registry error"
\* text the connection reports for an exception no handler caught
MsgUnhandled == "Unknown error"

VARIABLES
    devices,              \* registry.devices: device id -> DeviceEntry (a dict)
    hass_config_entries,  \* hass.config_entries: entry id -> ConfigEntry (a dict)
    req                   \* the commands: id -> position, inputs, steps run, messages sent

vars == <<devices, hass_config_entries, req>>

ReqIds == 1..MaxReq

(***************************************************************************)
(* Messages put on the connection.  `result` is a sequence holding the     *)
(* payload: <<>> stands for a null payload (and for "no payload" of an     *)
(* error), <<x>> for the payload x.                                        *)
(***************************************************************************)
result_message(id, result) ==
    [id |-> id, success |-> TRUE, result |-> result, code |-> "", message |-> ""]

error_message(id, code, message) ==
    [id |-> id, success |-> FALSE, result |-> <<>>, code |-> code, message |-> message]

(***************************************************************************)
(* list(a_set): the members in some order, each once.                      *)
(***************************************************************************)
RECURSIVE SetToSeq(_)
SetToSeq(S) ==
    IF S = {} THEN <<>>
    ELSE LET x == CHOOSE y \in S : TRUE
         IN  <<x>> \o SetToSeq(S \ {x})

\* _entry_dict: the API format of an entry (the fields a handler can change,
\* and the id; the other ten are copied the same way and never written here)
entry_dict(entry) ==
    [area_id |-> entry.area_id,
     config_entries |-> SetToSeq(entry.config_entries),
     disabled_by |-> entry.disabled_by,
     id |-> entry.id,
     name_by_user |-> entry.name_by_user]

(***************************************************************************)
(* The registry (homeassistant.helpers.device_registry), section 4.1 and   *)
(* step 7 of section 4.3.                                                  *)
(***************************************************************************)
\* the registry call that keeps a device whose last config entry went
async_update_device_remove_keeps(devs, device_id, config_entry_id, fails) ==
    IF device_id \notin DOMAIN devs
    THEN [raised |-> "KeyError", devices |-> devs, entry |-> <<>>]
    ELSE IF fails
    THEN [raised |-> "HomeAssistantError", devices |-> devs, entry |-> <<>>]
    ELSE LET new == [devs[device_id] EXCEPT !.config_entries = @ \ {config_entry_id}]
         IN  [raised |-> "", devices |-> [devs EXCEPT ![device_id] = new],
              entry |-> IF new.config_entries = {} THEN <<>> ELSE <<new>>]

\* registry.async_update_device(device_id, remove_config_entry_id=...):
\* KeyError when the device is not there; a registry error (HomeAssistantError)
\* when `fails`; otherwise the id is taken out of config_entries and a device
\* left with no config entry is deleted (the call then returns None).
async_update_device_remove(devs, device_id, config_entry_id, fails) ==
    IF device_id \notin DOMAIN devs
    THEN [raised |-> "KeyError", devices |-> devs, entry |-> <<>>]
    ELSE IF fails
    THEN [raised |-> "HomeAssistantError", devices |-> devs, entry |-> <<>>]
    ELSE LET left == devs[device_id].config_entries \ {config_entry_id}
         IN  IF left = {}
             THEN [raised |-> "",
                   devices |-> [d \in (DOMAIN devs) \ {device_id} |-> devs[d]],
                   entry |-> <<>>]
             ELSE LET new == [devs[device_id] EXCEPT !.config_entries = left]
                  IN  [raised |-> "",
                       devices |-> [devs EXCEPT ![device_id] = new],
                       entry |-> <<new>>]

\* registry.async_update_device(device_id, **changes) for the field changes
\* of the update command
async_update_device_fields(devs, device_id, changes) ==
    IF device_id \notin DOMAIN devs
    THEN [raised |-> "KeyError", devices |-> devs, entry |-> <<>>]
    ELSE LET old == devs[device_id]
             new == [id |-> old.id,
                     config_entries |-> old.config_entries,
                     area_id |-> IF "area_id" \in DOMAIN changes
                                 THEN changes["area_id"] ELSE old.area_id,
                     name_by_user |-> IF "name_by_user" \in DOMAIN changes
                                      THEN changes["name_by_user"] ELSE old.name_by_user,
                     disabled_by |-> IF "disabled_by" \in DOMAIN changes
                                     THEN changes["disabled_by"] ELSE old.disabled_by]
         IN  [raised |-> "", devices |-> [devs EXCEPT ![device_id] = new],
              entry |-> <<new>>]

(***************************************************************************)
(* The connection (homeassistant.components.websocket_api).                *)
(***************************************************************************)
\* what the command dispatcher sends when a handler lets an exception out:
\* one error response for the request
handle_exception(id) == error_message(id, ERR_UNKNOWN_ERROR, MsgUnhandled)

\* what the dispatcher sends when the message does not fit the schema
invalid_format(id) == error_message(id, "invalid_format", "invalid message")

(***************************************************************************)
(* The commands.                                                           *)
(***************************************************************************)
\* disabled_by: msg["disabled_by"] of an update where the run keeps it (see
\* UpdateDeviceKept), "" when the key is not there
IdleReq ==
    [pc |-> "idle", type |-> "", device_id |-> "", config_entry_id |-> "",
     disabled_by |-> "", trace |-> <<>>, raised |-> "", sent |-> <<>>]

\* _send_error of the removal handler: one error message, the handler returns
send_error(rq, id, message) ==
    [rq EXCEPT !.pc = "done",
               !.sent = Append(@, error_message(id, ERR_UNKNOWN_ERROR, message))]

\* remove_start with the device looked up before the config entry
remove_start_device_first(ces, devs, id, device_id, config_entry_id) ==
    LET rq == [IdleReq EXCEPT !.type = WS_TYPE_REMOVE, !.device_id = device_id,
                              !.config_entry_id = config_entry_id]
        t1 == <<"get_device">>
        t2 == <<"get_device", "membership">>
        t3 == <<"get_device", "membership", "get_entry">>
        t4 == <<"get_entry", "supports", "get_device", "membership">>
    IN  IF device_id \notin DOMAIN devs
        THEN send_error([rq EXCEPT !.trace = t1], id, MsgUnknownDevice)
        ELSE IF config_entry_id \notin devs[device_id].config_entries
        THEN send_error([rq EXCEPT !.trace = t2], id, MsgNotInDevice)
        ELSE IF config_entry_id \notin DOMAIN ces
        THEN send_error([rq EXCEPT !.trace = t3], id, MsgUnknownConfigEntry)
        ELSE IF ~ces[config_entry_id].supports_remove_device
        THEN send_error([rq EXCEPT !.trace = t4], id, MsgNoRemovalSupport)
        ELSE [rq EXCEPT !.trace = t4, !.pc = "load"]

\* remove_start without the membership check of step 4
remove_start_no_membership(ces, devs, id, device_id, config_entry_id) ==
    LET rq == [IdleReq EXCEPT !.type = WS_TYPE_REMOVE, !.device_id = device_id,
                              !.config_entry_id = config_entry_id]
        t1 == <<"get_entry">>
        t2 == <<"get_entry", "supports">>
        t3 == <<"get_entry", "supports", "get_device">>
        t4 == <<"get_entry", "supports", "get_device", "membership">>
    IN  IF config_entry_id \notin DOMAIN ces
        THEN send_error([rq EXCEPT !.trace = t1], id, MsgUnknownConfigEntry)
        ELSE IF ~ces[config_entry_id].supports_remove_device
        THEN send_error([rq EXCEPT !.trace = t2], id, MsgNoRemovalSupport)
        ELSE IF device_id \notin DOMAIN devs
        THEN send_error([rq EXCEPT !.trace = t3], id, MsgUnknownDevice)
        ELSE [rq EXCEPT !.trace = t4, !.pc = "load"]

\* websocket_remove_config_entry_from_device, from its entry to the first await
remove_start(ces, devs, id, device_id, config_entry_id) ==
    LET rq == [IdleReq EXCEPT !.type = WS_TYPE_REMOVE, !.device_id = device_id,
                              !.config_entry_id = config_entry_id]
        t1 == <<"get_entry">>
        t2 == <<"get_entry", "supports">>
        t3 == <<"get_entry", "supports", "get_device">>
        t4 == <<"get_entry", "supports", "get_device", "membership">>
    IN  IF config_entry_id \notin DOMAIN ces
        THEN send_error([rq EXCEPT !.trace = t1], id, MsgUnknownConfigEntry)
        ELSE IF ~ces[config_entry_id].supports_remove_device
        THEN send_error([rq EXCEPT !.trace = t2], id, MsgNoRemovalSupport)
        ELSE IF device_id \notin DOMAIN devs
        THEN send_error([rq EXCEPT !.trace = t3], id, MsgUnknownDevice)
        ELSE IF config_entry_id \notin devs[device_id].config_entries
        THEN send_error([rq EXCEPT !.trace = t4], id, MsgNotInDevice)
        ELSE [rq EXCEPT !.trace = t4, !.pc = "load"]

\* remove_after_load without the `except ImportError` branch: the
\* ImportError of get_component leaves the handler
remove_after_load_import_unhandled(rq, id, found, importable, has_hook) ==
    LET t5 == Append(rq.trace, "get_integration")
        t5b == Append(t5, "get_component")
        t6 == Append(t5b, "get_hook")
    IN  IF ~found
        THEN send_error([rq EXCEPT !.trace = t5], id, MsgIntegrationNotFound)
        ELSE IF ~importable
        THEN [rq EXCEPT !.trace = t5b, !.pc = "done", !.raised = "ImportError",
                        !.sent = Append(@, handle_exception(id))]
        ELSE IF ~has_hook
        THEN [rq EXCEPT !.trace = t6, !.pc = "done", !.raised = "AttributeError",
                        !.sent = Append(@, handle_exception(id))]
        ELSE [rq EXCEPT !.trace = t6, !.pc = "hook"]

\* ... from the return of loader.async_get_integration to the second await.
\* found: the loader found the integration; importable: get_component did not
\* raise ImportError; has_hook: the component has async_remove_config_entry_device
remove_after_load(rq, id, found, importable, has_hook) ==
    LET t5 == Append(rq.trace, "get_integration")
        t5b == Append(t5, "get_component")
        t6 == Append(t5b, "get_hook")
    IN  IF ~found
        THEN send_error([rq EXCEPT !.trace = t5], id, MsgIntegrationNotFound)
        ELSE IF ~importable
        THEN send_error([rq EXCEPT !.trace = t5b], id, MsgIntegrationNotFound)
        ELSE IF ~has_hook
        THEN \* AttributeError at line 124: nothing in the handler catches it
             [rq EXCEPT !.trace = t6, !.pc = "done", !.raised = "AttributeError",
                        !.sent = Append(@, handle_exception(id))]
        ELSE [rq EXCEPT !.trace = t6, !.pc = "hook"]

\* the end of the handler, shared by the variants below
finish(rq, id, message) == [rq EXCEPT !.pc = "done", !.sent = Append(@, message)]

\* remove_after_hook calling the registry before it looks at the hook's answer
remove_after_hook_mutates_first(rq, devs, id, allowed, fails) ==
    LET t6 == Append(rq.trace, "call_hook")
        t7 == Append(t6, "update")
        upd == async_update_device_remove(devs, rq.device_id, rq.config_entry_id, fails)
    IN  IF upd.raised = "HomeAssistantError"
        THEN [req |-> finish([rq EXCEPT !.trace = t7], id,
                         error_message(id, ERR_HOME_ASSISTANT_ERROR, MsgRegistryError)),
              devices |-> upd.devices]
        ELSE IF upd.raised = "KeyError"
        THEN [req |-> finish([rq EXCEPT !.trace = t7], id,
                         error_message(id, ERR_HOME_ASSISTANT_ERROR, MsgUnknownDevice)),
              devices |-> upd.devices]
        ELSE IF ~allowed
        THEN [req |-> send_error([rq EXCEPT !.trace = t7], id, MsgRejected),
              devices |-> upd.devices]
        ELSE LET entry_as_dict == IF upd.entry # <<>>
                                  THEN <<entry_dict(upd.entry[1])>> ELSE <<>>
             IN  [req |-> finish([rq EXCEPT !.trace = t7], id,
                                 result_message(id, entry_as_dict)),
                  devices |-> upd.devices]

\* remove_after_hook with the response built from the entry as it was before
\* the registry call; null_too: also when the registry returned None
remove_after_hook_stale(rq, devs, id, allowed, fails, null_too) ==
    LET t6 == Append(rq.trace, "call_hook")
        t7 == Append(t6, "update")
        upd == async_update_device_remove(devs, rq.device_id, rq.config_entry_id, fails)
    IN  IF ~allowed
        THEN [req |-> send_error([rq EXCEPT !.trace = t6], id, MsgRejected),
              devices |-> devs]
        ELSE IF upd.raised = "HomeAssistantError"
        THEN [req |-> finish([rq EXCEPT !.trace = t7], id,
                         error_message(id, ERR_HOME_ASSISTANT_ERROR, MsgRegistryError)),
              devices |-> upd.devices]
        ELSE IF upd.raised = "KeyError"
        THEN [req |-> finish([rq EXCEPT !.trace = t7], id,
                         error_message(id, ERR_HOME_ASSISTANT_ERROR, MsgUnknownDevice)),
              devices |-> upd.devices]
        ELSE LET entry_as_dict ==
                    IF upd.entry # <<>>
                    THEN IF null_too THEN <<entry_dict(upd.entry[1])>>
                         ELSE <<entry_dict(devs[rq.device_id])>>
                    ELSE IF null_too THEN <<entry_dict(devs[rq.device_id])>>
                         ELSE <<>>
             IN  [req |-> finish([rq EXCEPT !.trace = t7], id,
                                 result_message(id, entry_as_dict)),
                  devices |-> upd.devices]

\* ... the stale entry sent where the registry returned None
remove_after_hook_stale_null(rq, devs, id, allowed, fails) ==
    remove_after_hook_stale(rq, devs, id, allowed, fails, TRUE)

\* ... the stale entry sent where the registry returned the updated entry
remove_after_hook_stale_entry(rq, devs, id, allowed, fails) ==
    remove_after_hook_stale(rq, devs, id, allowed, fails, FALSE)

\* remove_after_hook whose KeyError branch does not return: the code after
\* the try runs too and a second message goes out
remove_after_hook_no_return(rq, devs, id, allowed, fails) ==
    LET t6 == Append(rq.trace, "call_hook")
        t7 == Append(t6, "update")
        upd == async_update_device_remove(devs, rq.device_id, rq.config_entry_id, fails)
    IN  IF ~allowed
        THEN [req |-> send_error([rq EXCEPT !.trace = t6], id, MsgRejected),
              devices |-> devs]
        ELSE IF upd.raised = "HomeAssistantError"
        THEN [req |-> finish([rq EXCEPT !.trace = t7], id,
                         error_message(id, ERR_HOME_ASSISTANT_ERROR, MsgRegistryError)),
              devices |-> upd.devices]
        ELSE IF upd.raised = "KeyError"
        THEN [req |-> finish(finish([rq EXCEPT !.trace = t7], id,
                         error_message(id, ERR_HOME_ASSISTANT_ERROR, MsgUnknownDevice)),
                         id, handle_exception(id)),
              devices |-> upd.devices]
        ELSE LET entry_as_dict == IF upd.entry # <<>>
                                  THEN <<entry_dict(upd.entry[1])>> ELSE <<>>
             IN  [req |-> finish([rq EXCEPT !.trace = t7], id,
                                 result_message(id, entry_as_dict)),
                  devices |-> upd.devices]

\* remove_after_hook without the `except KeyError` branch: the KeyError
\* leaves the handler
remove_after_hook_no_keyerror(rq, devs, id, allowed, fails) ==
    LET t6 == Append(rq.trace, "call_hook")
        t7 == Append(t6, "update")
        upd == async_update_device_remove(devs, rq.device_id, rq.config_entry_id, fails)
    IN  IF ~allowed
        THEN [req |-> send_error([rq EXCEPT !.trace = t6], id, MsgRejected),
              devices |-> devs]
        ELSE IF upd.raised = "HomeAssistantError"
        THEN [req |-> finish([rq EXCEPT !.trace = t7], id,
                         error_message(id, ERR_HOME_ASSISTANT_ERROR, MsgRegistryError)),
              devices |-> upd.devices]
        ELSE IF upd.raised = "KeyError"
        THEN [req |-> finish([rq EXCEPT !.trace = t7, !.raised = "KeyError"], id,
                             handle_exception(id)),
              devices |-> upd.devices]
        ELSE LET entry_as_dict == IF upd.entry # <<>>
                                  THEN <<entry_dict(upd.entry[1])>> ELSE <<>>
             IN  [req |-> finish([rq EXCEPT !.trace = t7], id,
                                 result_message(id, entry_as_dict)),
                  devices |-> upd.devices]

\* remove_after_hook starting over from the integration load when the
\* registry call finds the device gone
remove_after_hook_retries(rq, devs, id, allowed, fails) ==
    LET t6 == Append(rq.trace, "call_hook")
        t7 == Append(t6, "update")
        upd == async_update_device_remove(devs, rq.device_id, rq.config_entry_id, fails)
    IN  IF ~allowed
        THEN [req |-> send_error([rq EXCEPT !.trace = t6], id, MsgRejected),
              devices |-> devs]
        ELSE IF upd.raised = "HomeAssistantError"
        THEN [req |-> finish([rq EXCEPT !.trace = t7], id,
                         error_message(id, ERR_HOME_ASSISTANT_ERROR, MsgRegistryError)),
              devices |-> upd.devices]
        ELSE IF upd.raised = "KeyError"
        THEN [req |-> [rq EXCEPT !.pc = "load", !.trace = SubSeq(rq.trace, 1, 4)],
              devices |-> upd.devices]
        ELSE LET entry_as_dict == IF upd.entry # <<>>
                                  THEN <<entry_dict(upd.entry[1])>> ELSE <<>>
             IN  [req |-> finish([rq EXCEPT !.trace = t7], id,
                                 result_message(id, entry_as_dict)),
                  devices |-> upd.devices]

\* remove_after_hook looking at the membership again before the registry call
remove_after_hook_rechecks(rq, devs, id, allowed, fails) ==
    LET t6 == Append(rq.trace, "call_hook")
        t7 == Append(t6, "update")
        upd == async_update_device_remove(devs, rq.device_id, rq.config_entry_id, fails)
    IN  IF ~allowed
        THEN [req |-> send_error([rq EXCEPT !.trace = t6], id, MsgRejected),
              devices |-> devs]
        ELSE IF /\ rq.device_id \in DOMAIN devs
                /\ rq.config_entry_id \notin devs[rq.device_id].config_entries
        THEN [req |-> send_error([rq EXCEPT !.trace = t7], id, MsgNotInDevice),
              devices |-> devs]
        ELSE IF upd.raised = "HomeAssistantError"
        THEN [req |-> finish([rq EXCEPT !.trace = t7], id,
                         error_message(id, ERR_HOME_ASSISTANT_ERROR, MsgRegistryError)),
              devices |-> upd.devices]
        ELSE IF upd.raised = "KeyError"
        THEN [req |-> finish([rq EXCEPT !.trace = t7], id,
                         error_message(id, ERR_HOME_ASSISTANT_ERROR, MsgUnknownDevice)),
              devices |-> upd.devices]
        ELSE LET entry_as_dict == IF upd.entry # <<>>
                                  THEN <<entry_dict(upd.entry[1])>> ELSE <<>>
             IN  [req |-> finish([rq EXCEPT !.trace = t7], id,
                                 result_message(id, entry_as_dict)),
                  devices |-> upd.devices]

\* ... from the return of the hook to the end.  allowed: what the hook
\* returned; fails: the registry raises HomeAssistantError
remove_after_hook(rq, devs, id, allowed, fails) ==
    LET t6 == Append(rq.trace, "call_hook")
        t7 == Append(t6, "update")
        upd == async_update_device_remove(devs, rq.device_id, rq.config_entry_id, fails)
    IN  IF ~allowed
        THEN [req |-> send_error([rq EXCEPT !.trace = t6], id, MsgRejected),
              devices |-> devs]
        ELSE IF upd.raised = "HomeAssistantError"
        THEN [req |-> [rq EXCEPT !.trace = t7, !.pc = "done",
                         !.sent = Append(@, error_message(id, ERR_HOME_ASSISTANT_ERROR,
                                                          MsgRegistryError))],
              devices |-> upd.devices]
        ELSE IF upd.raised = "KeyError"
        THEN [req |-> [rq EXCEPT !.trace = t7, !.pc = "done",
                         !.sent = Append(@, error_message(id, ERR_HOME_ASSISTANT_ERROR,
                                                          MsgUnknownDevice))],
              devices |-> upd.devices]
        ELSE LET entry_as_dict == IF upd.entry # <<>>
                                  THEN <<entry_dict(upd.entry[1])>> ELSE <<>>
             IN  [req |-> [rq EXCEPT !.trace = t7, !.pc = "done",
                             !.sent = Append(@, result_message(id, entry_as_dict))],
                  devices |-> upd.devices]

(***************************************************************************)
(* The update and list commands.                                           *)
(***************************************************************************)
UpdateKeys == {"area_id", "name_by_user", "disabled_by"}

\* the values of DeviceEntryDisabler
DeviceEntryDisabler == {"config_entry", "integration", "user"}

\* what a caller may put under each optional key
KeyInputs(k) ==
    IF k = "area_id" THEN AreaIds
    ELSE IF k = "name_by_user" THEN Names
    ELSE DeviceEntryDisabler \cup {None}

UpdateInputs ==
    {f \in UNION {[K -> AreaIds \cup Names \cup DeviceEntryDisabler] : K \in SUBSET UpdateKeys} :
        \A k \in DOMAIN f : f[k] \in KeyInputs(k)}

\* SCHEMA_WS_UPDATE accepting every value of DeviceEntryDisabler
SCHEMA_WS_UPDATE_any_disabler(changes) ==
    "disabled_by" \in DOMAIN changes
        => changes["disabled_by"] \in DeviceEntryDisabler \cup {None}

\* SCHEMA_WS_UPDATE on the optional keys
SCHEMA_WS_UPDATE(changes) ==
    "disabled_by" \in DOMAIN changes => changes["disabled_by"] \in {DISABLER_USER, None}

\* DeviceEntryDisabler(value): the member with that value (a str enum: the
\* member equals its value), ValueError when there is none
to_disabler(value) ==
    [raised |-> IF value \in DeviceEntryDisabler THEN "" ELSE "ValueError",
     value |-> value]

\* websocket_update_device answering an unknown device with an empty result
websocket_update_device_swallows(devs, id, device_id, changes) ==
    LET rq == [IdleReq EXCEPT !.type = WS_TYPE_UPDATE, !.device_id = device_id,
                              !.pc = "done"]
        upd == async_update_device_fields(devs, device_id, changes)
    IN  IF upd.raised # ""
        THEN [req |-> [rq EXCEPT !.sent = Append(@, result_message(id, <<>>))],
              devices |-> devs]
        ELSE [req |-> [rq EXCEPT !.sent = Append(@,
                          result_message(id, <<entry_dict(upd.entry[1])>>))],
              devices |-> upd.devices]

\* websocket_update_device
websocket_update_device(devs, id, device_id, changes) ==
    LET rq == [IdleReq EXCEPT !.type = WS_TYPE_UPDATE, !.device_id = device_id,
                              !.pc = "done"]
        conv == IF "disabled_by" \in DOMAIN changes /\ changes["disabled_by"] # None
                THEN to_disabler(changes["disabled_by"])
                ELSE [raised |-> "", value |-> None]
        msg == IF "disabled_by" \in DOMAIN changes /\ changes["disabled_by"] # None
               THEN [changes EXCEPT !["disabled_by"] = conv.value]
               ELSE changes
        upd == async_update_device_fields(devs, device_id, msg)
    IN  IF conv.raised # ""
        THEN [req |-> [rq EXCEPT !.raised = conv.raised,
                                 !.sent = Append(@, handle_exception(id))],
              devices |-> devs]
        ELSE IF upd.raised # ""
        THEN [req |-> [rq EXCEPT !.raised = upd.raised,
                                 !.sent = Append(@, handle_exception(id))],
              devices |-> devs]
        ELSE [req |-> [rq EXCEPT !.sent = Append(@,
                          result_message(id, <<entry_dict(upd.entry[1])>>))],
              devices |-> upd.devices]

\* websocket_list_devices leaving the disabled devices out
websocket_list_devices_skips_disabled(devs, id) ==
    LET ids == SetToSeq({d \in DOMAIN devs : devs[d].disabled_by = None})
    IN  [IdleReq EXCEPT !.type = WS_TYPE_LIST, !.pc = "done",
           !.sent = Append(@, result_message(id,
                       <<[n \in 1..Len(ids) |-> entry_dict(devs[ids[n]])]>>))]

\* websocket_list_devices
websocket_list_devices(devs, id) ==
    LET ids == SetToSeq(DOMAIN devs)
    IN  [IdleReq EXCEPT !.type = WS_TYPE_LIST, !.pc = "done",
           !.sent = Append(@, result_message(id,
                       <<[n \in 1..Len(ids) |-> entry_dict(devs[ids[n]])]>>))]

(***************************************************************************)
(* The state machine.                                                      *)
(***************************************************************************)
DeviceEntry(d, ces) ==
    [id |-> d, config_entries |-> ces, area_id |-> None, name_by_user |-> None,
     disabled_by |-> None]

ConfigEntries == [supports_remove_device : BOOLEAN, domain : {"hue"}]

\* the registries and config entries a run may start from: every device has
\* a config entry; d1 has any, d2 (when there) has B; A is a config entry
\* that supports removal, B is one, or one that does not, or is none
InitRegistries ==
    {f \in UNION {[S -> (SUBSET Instances) \ {{}}] : S \in SUBSET Devices} :
        "d2" \in DOMAIN f => f["d2"] = {"B"}}

InitConfigEntries ==
    {f \in UNION {[S -> ConfigEntries] : S \in SUBSET Instances} :
        "A" \in DOMAIN f /\ f["A"].supports_remove_device}

Init ==
    /\ \E ces \in InitRegistries :
          devices = [d \in DOMAIN ces |-> DeviceEntry(d, ces[d])]
    /\ hass_config_entries \in InitConfigEntries
    /\ req = [r \in ReqIds |-> IdleReq]

\* the caller's ids are 1, 2, ... in the order the commands arrive
NextId(r) == req[r].pc = "idle" /\ \A q \in 1..(r - 1) : req[q].pc # "idle"

RemoveStart(r, device_id, config_entry_id) ==
    /\ NextId(r)
    /\ req' = [req EXCEPT ![r] = remove_start(hass_config_entries, devices, r,
                                              device_id, config_entry_id)]
    /\ UNCHANGED <<devices, hass_config_entries>>

RemoveAfterLoad(r, found, importable, has_hook) ==
    /\ req[r].pc = "load"
    /\ req' = [req EXCEPT ![r] = remove_after_load(req[r], r, found, importable, has_hook)]
    /\ UNCHANGED <<devices, hass_config_entries>>

RemoveAfterHook(r, allowed, fails) ==
    /\ req[r].pc = "hook"
    /\ LET out == remove_after_hook(req[r], devices, r, allowed, fails)
       IN  /\ req' = [req EXCEPT ![r] = out.req]
           /\ devices' = out.devices
    /\ UNCHANGED hass_config_entries

UpdateDevice(r, device_id, changes) ==
    /\ NextId(r)
    /\ IF SCHEMA_WS_UPDATE(changes)
       THEN LET out == websocket_update_device(devices, r, device_id, changes)
            IN  /\ req' = [req EXCEPT ![r] = out.req]
                /\ devices' = out.devices
       ELSE /\ req' = [req EXCEPT ![r] =
                         [IdleReq EXCEPT !.type = WS_TYPE_UPDATE, !.device_id = device_id,
                                         !.pc = "done", !.raised = "Invalid",
                                         !.sent = Append(@, invalid_format(r))]]
            /\ UNCHANGED devices
    /\ UNCHANGED hass_config_entries

ListDevices(r) ==
    /\ NextId(r)
    /\ req' = [req EXCEPT ![r] = websocket_list_devices(devices, r)]
    /\ UNCHANGED <<devices, hass_config_entries>>

Next ==
    \/ \E r \in ReqIds, d \in Devices, i \in Instances : RemoveStart(r, d, i)
    \/ \E r \in ReqIds, found, importable, has_hook \in BOOLEAN :
          RemoveAfterLoad(r, found, importable, has_hook)
    \/ \E r \in ReqIds, allowed, fails \in BOOLEAN : RemoveAfterHook(r, allowed, fails)
    \/ \E r \in ReqIds, d \in Devices, changes \in UpdateInputs : UpdateDevice(r, d, changes)
    \/ \E r \in ReqIds : ListDevices(r)

Spec == Init /\ [][Next]_vars

(***************************************************************************)
(* The same machine with the disabled_by of every update message kept in   *)
(* the command's record, from registries with both config entries there.   *)
(***************************************************************************)
UpdateDeviceKept(r, device_id, changes) ==
    /\ NextId(r)
    /\ LET given == IF "disabled_by" \in DOMAIN changes
                    THEN changes["disabled_by"] ELSE ""
       IN  IF SCHEMA_WS_UPDATE(changes)
           THEN LET out == websocket_update_device(devices, r, device_id, changes)
                IN  /\ req' = [req EXCEPT ![r] = [out.req EXCEPT !.disabled_by = given]]
                    /\ devices' = out.devices
           ELSE /\ req' = [req EXCEPT ![r] =
                             [IdleReq EXCEPT !.type = WS_TYPE_UPDATE,
                                             !.device_id = device_id,
                                             !.disabled_by = given,
                                             !.pc = "done", !.raised = "Invalid",
                                             !.sent = Append(@, invalid_format(r))]]
                /\ UNCHANGED devices
    /\ UNCHANGED hass_config_entries

InitUpdate ==
    /\ \E ces \in InitRegistries :
          devices = [d \in DOMAIN ces |-> DeviceEntry(d, ces[d])]
    /\ hass_config_entries =
          [i \in Instances |-> [supports_remove_device |-> TRUE, domain |-> "hue"]]
    /\ req = [r \in ReqIds |-> IdleReq]

NextUpdate ==
    \/ \E r \in ReqIds, d \in Devices, i \in Instances : RemoveStart(r, d, i)
    \/ \E r \in ReqIds, found, importable, has_hook \in BOOLEAN :
          RemoveAfterLoad(r, found, importable, has_hook)
    \/ \E r \in ReqIds, allowed, fails \in BOOLEAN : RemoveAfterHook(r, allowed, fails)
    \/ \E r \in ReqIds, d \in Devices, changes \in UpdateInputs :
          UpdateDeviceKept(r, d, changes)
    \/ \E r \in ReqIds : ListDevices(r)

SpecUpdate == InitUpdate /\ [][NextUpdate]_vars

(***************************************************************************)
(* The machine under the scheduling of the event loop: an awaited          *)
(* integration load and an awaited hook each return in the end, and the    *)
(* handler is resumed when they do.  Runs start from registries with both  *)
(* devices, d1 having config entry A, both config entries being there.     *)
(***************************************************************************)
LoadReturns(r) ==
    \E found, importable, has_hook \in BOOLEAN :
        RemoveAfterLoad(r, found, importable, has_hook)

HookReturns(r) ==
    \E allowed, fails \in BOOLEAN : RemoveAfterHook(r, allowed, fails)

\* d1 has A, or A and B; d2 has B
InitLive ==
    /\ \E ces \in InitRegistries :
          /\ DOMAIN ces = Devices /\ "A" \in ces["d1"]
          /\ devices = [d \in DOMAIN ces |-> DeviceEntry(d, ces[d])]
    /\ hass_config_entries =
          [i \in Instances |-> [supports_remove_device |-> TRUE, domain |-> "hue"]]
    /\ req = [r \in ReqIds |-> IdleReq]

FairSpec ==
    /\ InitLive
    /\ [][Next]_vars
    /\ \A r \in ReqIds : WF_vars(LoadReturns(r)) /\ WF_vars(HookReturns(r))

(***************************************************************************)
(* Vocabulary of the properties.                                           *)
(***************************************************************************)
\* the steps of a removal that ran to its registry call
FullTrace ==
    <<"get_entry", "supports", "get_device", "membership", "get_integration",
      "get_component", "get_hook", "call_hook", "update">>

IsRemoval(rq) == rq.type = WS_TYPE_REMOVE

\* the request ended with exactly the error (code, message)
EndedWithError(rq, id, code, message) ==
    rq.pc = "done" /\ rq.sent = <<error_message(id, code, message)>>

\* the request ended with one success response
Succeeded(rq) == rq.pc = "done" /\ Len(rq.sent) = 1 /\ rq.sent[1].success

\* the request ended with one error response
Rejected(rq) == rq.pc = "done" /\ Len(rq.sent) = 1 /\ ~rq.sent[1].success

\* the request called registry.async_update_device
CalledUpdate(rq) == \E n \in 1..Len(rq.trace) : rq.trace[n] = "update"

UpdateCalls(rq) == Cardinality({n \in 1..Len(rq.trace) : rq.trace[n] = "update"})

\* this step is the one in which removal r calls the registry (step 7)
MutationStep(r) ==
    /\ req[r].pc = "hook"
    /\ CalledUpdate(req'[r])

\* this step is the one in which command r arrives as a removal
ArrivalStep(r) ==
    /\ req[r].pc = "idle"
    /\ IsRemoval(req'[r])

(***************************************************************************)
(* C1: a removal changes the registry only after checks 1-6 have all       *)
(* passed, and calls the registry at most once; a removal that ends with   *)
(* an error leaves every entry of the registry as it was.                  *)
(***************************************************************************)
C1_MutatesOnlyAfterChecks ==
    [][\A r \in ReqIds :
         (req'[r] # req[r] /\ IsRemoval(req'[r])) =>
            /\ devices' # devices =>
                  /\ req[r].pc = "hook"
                  /\ req'[r].trace = FullTrace
                  /\ Succeeded(req'[r])
            /\ Rejected(req'[r]) => devices' = devices
            /\ UpdateCalls(req'[r]) <= 1
            /\ CalledUpdate(req'[r]) => req'[r].trace = FullTrace]_vars

\* one removal was rejected by the hook and another one went through
C1_Witness ==
    \E r, q \in ReqIds :
        /\ IsRemoval(req[r])
        /\ EndedWithError(req[r], r, ERR_UNKNOWN_ERROR, MsgRejected)
        /\ IsRemoval(req[q]) /\ Succeeded(req[q])

(***************************************************************************)
(* C2: the checks run in the order 1 config entry exists, 2 it supports    *)
(* removal, 3 the device exists, 4 the entry is in the device, 5 the       *)
(* integration resolves, 6 the hook agrees; the response is that of the    *)
(* lowest-numbered failing check and no later step runs.                   *)
(***************************************************************************)
Fails1(i) == i \notin DOMAIN hass_config_entries
Fails2(i) == i \in DOMAIN hass_config_entries
             /\ ~hass_config_entries[i].supports_remove_device
Fails3(d) == d \notin DOMAIN devices
Fails4(d, i) == d \in DOMAIN devices /\ i \notin devices[d].config_entries

C2_FirstFailingCheck ==
    [][\A r \in ReqIds :
         /\ ArrivalStep(r) =>
              LET d == req'[r].device_id
                  i == req'[r].config_entry_id
                  rq == req'[r]
              IN  IF Fails1(i)
                  THEN /\ EndedWithError(rq, r, ERR_UNKNOWN_ERROR, MsgUnknownConfigEntry)
                       /\ rq.trace = SubSeq(FullTrace, 1, 1)
                  ELSE IF Fails2(i)
                  THEN /\ EndedWithError(rq, r, ERR_UNKNOWN_ERROR, MsgNoRemovalSupport)
                       /\ rq.trace = SubSeq(FullTrace, 1, 2)
                  ELSE IF Fails3(d)
                  THEN /\ EndedWithError(rq, r, ERR_UNKNOWN_ERROR, MsgUnknownDevice)
                       /\ rq.trace = SubSeq(FullTrace, 1, 3)
                  ELSE IF Fails4(d, i)
                  THEN /\ EndedWithError(rq, r, ERR_UNKNOWN_ERROR, MsgNotInDevice)
                       /\ rq.trace = SubSeq(FullTrace, 1, 4)
                  ELSE /\ rq.pc = "load" /\ rq.sent = <<>>
                       /\ rq.trace = SubSeq(FullTrace, 1, 4)
         /\ (req[r].pc = "load" /\ req'[r].pc = "done" /\ req'[r].raised = "") =>
              /\ EndedWithError(req'[r], r, ERR_UNKNOWN_ERROR, MsgIntegrationNotFound)
              /\ req'[r].trace \in {SubSeq(FullTrace, 1, 5), SubSeq(FullTrace, 1, 6)}
         /\ (req[r].pc = "load" /\ req'[r].pc = "hook") =>
              req'[r].trace = SubSeq(FullTrace, 1, 7) /\ req'[r].sent = <<>>
         /\ (req[r].pc = "hook" /\ req'[r].pc = "done" /\ ~CalledUpdate(req'[r])) =>
              /\ EndedWithError(req'[r], r, ERR_UNKNOWN_ERROR, MsgRejected)
              /\ req'[r].trace = SubSeq(FullTrace, 1, 8)]_vars

\* a removal that named an unknown config entry and an unknown device was
\* answered for the config entry, before any device lookup
C2_Witness ==
    \E r \in ReqIds :
        /\ IsRemoval(req[r])
        /\ EndedWithError(req[r], r, ERR_UNKNOWN_ERROR, MsgUnknownConfigEntry)
        /\ req[r].trace = <<"get_entry">>
        /\ req[r].device_id \notin DOMAIN devices
        /\ req[r].config_entry_id \notin DOMAIN hass_config_entries
        /\ \A q \in ReqIds : ~CalledUpdate(req[q])

(***************************************************************************)
(* C3: when a removal has passed checks 1-6 and its config entry is the    *)
(* only one of the device at the registry call (and the registry raises    *)
(* no error of its own), the device is deleted from the registry and the   *)
(* success response carries null.                                          *)
(***************************************************************************)
C3_LastAssociationDeletes ==
    [][\A r \in ReqIds :
         LET d == req[r].device_id
             i == req[r].config_entry_id
         IN  (/\ MutationStep(r)
              /\ d \in DOMAIN devices
              /\ devices[d].config_entries = {i}
              /\ ~EndedWithError(req'[r], r, ERR_HOME_ASSISTANT_ERROR, MsgRegistryError))
             => /\ d \notin DOMAIN devices'
                /\ req'[r].pc = "done"
                /\ req'[r].sent = <<result_message(r, <<>>)>>]_vars

\* a removal answered with null, its device gone
C3_Witness ==
    \E r \in ReqIds :
        /\ IsRemoval(req[r])
        /\ req[r].trace = FullTrace
        /\ req[r].pc = "done"
        /\ req[r].sent = <<result_message(r, <<>>)>>
        /\ req[r].device_id \notin DOMAIN devices

(***************************************************************************)
(* C4: when a removal has passed checks 1-6 and the device has the config  *)
(* entry and at least one other (and the registry raises no error of its   *)
(* own), the device stays, its config_entries lose exactly that entry, its *)
(* other fields and the other devices are unchanged, and the response      *)
(* carries the updated entry.                                              *)
(***************************************************************************)
C4_OneOfSeveral ==
    [][\A r \in ReqIds :
         LET d == req[r].device_id
             i == req[r].config_entry_id
         IN  (/\ MutationStep(r)
              /\ d \in DOMAIN devices
              /\ i \in devices[d].config_entries
              /\ devices[d].config_entries # {i}
              /\ ~EndedWithError(req'[r], r, ERR_HOME_ASSISTANT_ERROR, MsgRegistryError))
             => /\ DOMAIN devices' = DOMAIN devices
                /\ devices'[d].config_entries = devices[d].config_entries \ {i}
                /\ devices'[d].id = devices[d].id
                /\ devices'[d].area_id = devices[d].area_id
                /\ devices'[d].name_by_user = devices[d].name_by_user
                /\ devices'[d].disabled_by = devices[d].disabled_by
                /\ \A e \in DOMAIN devices \ {d} : devices'[e] = devices[e]
                /\ req'[r].pc = "done"
                /\ req'[r].sent = <<result_message(r, <<entry_dict(devices'[d])>>)>>]_vars

\* a removal answered with the entry of a device that is still there, the
\* entry having fields that were set by an update
C4_Witness ==
    \E r \in ReqIds :
        /\ IsRemoval(req[r])
        /\ req[r].trace = FullTrace
        /\ Succeeded(req[r])
        /\ req[r].device_id \in DOMAIN devices
        /\ req[r].sent[1].result = <<entry_dict(devices[req[r].device_id])>>
        /\ req[r].config_entry_id \notin devices[req[r].device_id].config_entries
        /\ devices[req[r].device_id].area_id # None

(***************************************************************************)
(* C5: every removal request gets exactly one response, carrying its id,   *)
(* on every path; nothing is sent before the request ends.                 *)
(***************************************************************************)
RemovalResponses(id) ==
    {error_message(id, ERR_UNKNOWN_ERROR, m) :
        m \in {MsgUnknownConfigEntry, MsgNoRemovalSupport, MsgUnknownDevice,
               MsgNotInDevice, MsgIntegrationNotFound, MsgRejected, MsgUnhandled}}
    \cup {error_message(id, ERR_HOME_ASSISTANT_ERROR, m) :
            m \in {MsgRegistryError, MsgUnknownDevice}}
    \cup {m \in {req[id].sent[n] : n \in 1..Len(req[id].sent)} : m.success /\ m.id = id}

C5_ExactlyOneResponse ==
    \A r \in ReqIds :
        IsRemoval(req[r]) =>
            /\ req[r].pc = "done" => /\ Len(req[r].sent) = 1
                                     /\ req[r].sent[1].id = r
                                     /\ req[r].sent[1] \in RemovalResponses(r)
            /\ req[r].pc # "done" => req[r].sent = <<>>

\* one removal ended in the KeyError branch of the registry call, another
\* one with success
C5_Witness ==
    \E r, q \in ReqIds :
        /\ IsRemoval(req[r])
        /\ EndedWithError(req[r], r, ERR_HOME_ASSISTANT_ERROR, MsgUnknownDevice)
        /\ IsRemoval(req[q]) /\ Succeeded(req[q])

(***************************************************************************)
(* C6: in every reachable state, whatever removals and updates are in      *)
(* flight, every device in the registry has at least one config entry.     *)
(***************************************************************************)
C6_NoDeviceWithoutConfigEntry ==
    \A d \in DOMAIN devices : devices[d].config_entries # {}

\* a removal has deleted a device with its last config entry while another
\* removal is suspended
C6_Witness ==
    \E r, q \in ReqIds :
        /\ IsRemoval(req[r])
        /\ req[r].pc = "done"
        /\ req[r].sent = <<result_message(r, <<>>)>>
        /\ req[r].device_id \notin DOMAIN devices
        /\ IsRemoval(req[q])
        /\ req[q].pc \in {"load", "hook"}

(***************************************************************************)
(* C7: a removal that reaches its registry call (step 7) after the device  *)
(* was deleted, while it was suspended, ends with the one error response   *)
(* "Unknown device", changes nothing in the registry and calls the         *)
(* registry once.                                                          *)
(***************************************************************************)
C7_VanishedDevice ==
    [][\A r \in ReqIds :
         (MutationStep(r) /\ req[r].device_id \notin DOMAIN devices)
         => /\ EndedWithError(req'[r], r, ERR_HOME_ASSISTANT_ERROR, MsgUnknownDevice)
            /\ req'[r].raised = ""
            /\ devices' = devices
            /\ UpdateCalls(req'[r]) = 1]_vars

\* a removal that passed the device and membership checks ended with
\* "Unknown device" from its registry call
C7_Witness ==
    \E r \in ReqIds :
        /\ IsRemoval(req[r])
        /\ req[r].trace = FullTrace
        /\ EndedWithError(req[r], r, ERR_HOME_ASSISTANT_ERROR, MsgUnknownDevice)
        /\ req[r].device_id \notin DOMAIN devices

(***************************************************************************)
(* C8, as claimed: a removal that reaches its registry call after its      *)
(* config entry was taken out of the device by another request, the device *)
(* still being there, does not report success.                             *)
(***************************************************************************)
AssociationGone(r) ==
    /\ req[r].device_id \in DOMAIN devices
    /\ req[r].config_entry_id \notin devices[req[r].device_id].config_entries

C8_Claimed ==
    [][\A r \in ReqIds :
         (MutationStep(r) /\ AssociationGone(r)) => ~Succeeded(req'[r])]_vars

(***************************************************************************)
(* C8, as the code has it: such a removal reports success with the         *)
(* device's current entry, which does not hold the config entry, and       *)
(* changes nothing in the registry (unless the registry raises an error of *)
(* its own, which is reported).                                            *)
(***************************************************************************)
C8_SucceedsUnchanged ==
    [][\A r \in ReqIds :
         (MutationStep(r) /\ AssociationGone(r))
         => /\ devices' = devices
            /\ \/ EndedWithError(req'[r], r, ERR_HOME_ASSISTANT_ERROR, MsgRegistryError)
               \/ /\ req'[r].pc = "done"
                  /\ req'[r].sent =
                        <<result_message(r, <<entry_dict(devices[req[r].device_id])>>)>>]_vars

\* two removals of the same config entry from the same device both ended
\* with success, the device still there
C8_Witness ==
    \E r, q \in ReqIds :
        /\ r # q
        /\ IsRemoval(req[r]) /\ IsRemoval(req[q])
        /\ req[r].device_id = req[q].device_id
        /\ req[r].config_entry_id = req[q].config_entry_id
        /\ Succeeded(req[r]) /\ Succeeded(req[q])
        /\ req[r].device_id \in DOMAIN devices

(***************************************************************************)
(* C9, as claimed: after a removal of (D, A) that succeeded and left D in  *)
(* the registry, a second identical removal has the same outcome: it is    *)
(* not rejected.                                                           *)
(***************************************************************************)
\* removal q of the same device and config entry as the arriving r has
\* ended with success
FirstCallSucceeded(q, r) ==
    /\ IsRemoval(req[q])
    /\ Succeeded(req[q])
    /\ req[q].device_id = req'[r].device_id
    /\ req[q].config_entry_id = req'[r].config_entry_id

C9_Claimed ==
    [][\A r, q \in ReqIds :
         (/\ ArrivalStep(r)
          /\ FirstCallSucceeded(q, r)
          /\ req'[r].device_id \in DOMAIN devices)
         => ~Rejected(req'[r])]_vars

(***************************************************************************)
(* C9, as the code has it: the second identical removal is rejected at     *)
(* once, with "Config entry not in device" while D is in the registry and  *)
(* with "Unknown device" once D is deleted, and leaves the registry as it  *)
(* found it.                                                               *)
(***************************************************************************)
C9_SecondCallRejected ==
    [][\A r, q \in ReqIds :
         (ArrivalStep(r) /\ FirstCallSucceeded(q, r))
         => /\ devices' = devices
            /\ IF req'[r].device_id \in DOMAIN devices
               THEN EndedWithError(req'[r], r, ERR_UNKNOWN_ERROR, MsgNotInDevice)
               ELSE EndedWithError(req'[r], r, ERR_UNKNOWN_ERROR, MsgUnknownDevice)]_vars

\* a removal succeeded and left the device; the same removal, issued again,
\* was rejected with "Config entry not in device"
C9_Witness ==
    \E r, q \in ReqIds :
        /\ q < r
        /\ IsRemoval(req[r]) /\ IsRemoval(req[q])
        /\ req[r].device_id = req[q].device_id
        /\ req[r].config_entry_id = req[q].config_entry_id
        /\ Succeeded(req[q])
        /\ req[q].sent[1].result # <<>>
        /\ EndedWithError(req[r], r, ERR_UNKNOWN_ERROR, MsgNotInDevice)
        /\ req[r].device_id \in DOMAIN devices

(***************************************************************************)
(* C10, as claimed: a removal whose integration has no                     *)
(* async_remove_config_entry_device ends rejected by the integration, with *)
(* no exception leaving the handler.                                       *)
(***************************************************************************)
\* the removal ended where it looked the hook up
EndedAtHookLookup(rq) ==
    /\ IsRemoval(rq)
    /\ rq.pc = "done"
    /\ rq.trace = SubSeq(FullTrace, 1, 7)

C10_Claimed ==
    \A r \in ReqIds :
        EndedAtHookLookup(req[r])
        => /\ EndedWithError(req[r], r, ERR_UNKNOWN_ERROR, MsgRejected)
           /\ req[r].raised = ""

(***************************************************************************)
(* Vocabulary of the update and list properties.                           *)
(***************************************************************************)
IsUpdate(rq) == rq.type = WS_TYPE_UPDATE

IsList(rq) == rq.type = WS_TYPE_LIST

\* this step is the one in which command r arrives as an update
UpdateStep(r) ==
    /\ req[r].pc = "idle"
    /\ IsUpdate(req'[r])

\* the disabled_by of the update is there and is neither "user" nor None
OtherDisabler(rq) == rq.disabled_by \notin {"", DISABLER_USER, None}

(***************************************************************************)
(* C11: an update whose disabled_by is neither "user" nor null is answered *)
(* with one validation error and leaves the registry untouched; an update  *)
(* with "user" or null writes that value; so the disabled_by of every      *)
(* device in the registry is "user" or unset.                              *)
(***************************************************************************)
C11_OnlyUserDisabler ==
    /\ [](\A d \in DOMAIN devices : devices[d].disabled_by \in {DISABLER_USER, None})
    /\ [][\A r \in ReqIds :
            UpdateStep(r) =>
               LET d == req'[r].device_id
               IN  IF OtherDisabler(req'[r])
                   THEN /\ devices' = devices
                        /\ req'[r].pc = "done"
                        /\ req'[r].sent = <<invalid_format(r)>>
                   ELSE /\ req'[r].sent # <<invalid_format(r)>>
                        /\ (req'[r].disabled_by # "" /\ d \in DOMAIN devices)
                           => /\ Succeeded(req'[r])
                              /\ devices'[d].disabled_by = req'[r].disabled_by]_vars

\* one update was refused for its disabled_by, another one has disabled a
\* device as "user"
C11_Witness ==
    \E r, q \in ReqIds :
        /\ IsUpdate(req[r])
        /\ OtherDisabler(req[r])
        /\ req[r].pc = "done"
        /\ req[r].sent = <<invalid_format(r)>>
        /\ IsUpdate(req[q])
        /\ req[q].disabled_by = DISABLER_USER
        /\ Succeeded(req[q])
        /\ req[q].device_id \in DOMAIN devices
        /\ devices[req[q].device_id].disabled_by = DISABLER_USER

ListStep(r) ==
    /\ req[r].pc = "idle"
    /\ IsList(req'[r])

C13_ListIsRegistry ==
    [][\A r \in ReqIds :
         ListStep(r) =>
            /\ devices' = devices
            /\ Succeeded(req'[r])
            /\ req'[r].sent[1].id = r
            /\ Len(req'[r].sent[1].result) = 1
            /\ LET out == req'[r].sent[1].result[1]
               IN  /\ Len(out) = Cardinality(DOMAIN devices)
                   /\ {out[n].id : n \in 1..Len(out)} = DOMAIN devices
                   /\ \A n \in 1..Len(out) : out[n] = entry_dict(devices[out[n].id])]_vars

\* a list command was answered with two records while an earlier removal is
\* suspended
C13_Witness ==
    \E r, q \in ReqIds :
        /\ q < r
        /\ IsRemoval(req[q])
        /\ req[q].pc \in {"load", "hook"}
        /\ IsList(req[r])
        /\ Succeeded(req[r])
        /\ Len(req[r].sent[1].result[1]) = 2

(***************************************************************************)
(* C14, as claimed: among the error responses of a removal, every          *)
(* not-found outcome (unknown config entry, unknown device, integration    *)
(* not found) and every policy outcome (no removal support, not in device, *)
(* rejected) carries the one tag, a failure of the registry call carries   *)
(* the other, internal-error tag, and no not-found outcome is reported     *)
(* under the internal-error tag, whichever step finds it.                  *)
(***************************************************************************)
NotFoundOutcomes == {MsgUnknownConfigEntry, MsgUnknownDevice, MsgIntegrationNotFound}

PolicyOutcomes == {MsgNoRemovalSupport, MsgNotInDevice, MsgRejected}

C14_Claimed ==
    \A r \in ReqIds :
        (IsRemoval(req[r]) /\ Rejected(req[r])) =>
            LET m == req[r].sent[1]
            IN  /\ m.message \in NotFoundOutcomes \cup PolicyOutcomes
                   => m.code = ERR_UNKNOWN_ERROR
                /\ m.message = MsgRegistryError => m.code = ERR_HOME_ASSISTANT_ERROR
                /\ m.code = ERR_HOME_ASSISTANT_ERROR => m.message \notin NotFoundOutcomes

(***************************************************************************)
(* C15: at step 5 both failures, the loader not finding the integration    *)
(* and the import of its component failing, end the removal with the same  *)
(* "Integration not found" error, the hook neither looked up nor called    *)
(* and the registry unchanged.                                             *)
(***************************************************************************)
C15_BothLoadFailuresAlike ==
    [][\A r \in ReqIds :
         (req[r].pc = "load" /\ req'[r] # req[r]) =>
            /\ devices' = devices
            /\ \A found, importable, has_hook \in BOOLEAN :
                  (/\ RemoveAfterLoad(r, found, importable, has_hook)
                   /\ ~(found /\ importable))
                  => /\ EndedWithError(req'[r], r, ERR_UNKNOWN_ERROR,
                                       MsgIntegrationNotFound)
                     /\ req'[r].raised = ""
                     /\ \A n \in 1..Len(req'[r].trace) :
                           req'[r].trace[n] \notin {"get_hook", "call_hook", "update"}]_vars

\* one removal ended at the loader and another at the import, both with
\* "Integration not found"
C15_Witness ==
    \E r, q \in ReqIds :
        /\ IsRemoval(req[r]) /\ IsRemoval(req[q])
        /\ req[r].trace = SubSeq(FullTrace, 1, 5)
        /\ req[q].trace = SubSeq(FullTrace, 1, 6)
        /\ req[r].pc = "done" /\ req[q].pc = "done"
        /\ req[r].sent = <<error_message(r, ERR_UNKNOWN_ERROR, MsgIntegrationNotFound)>>
        /\ req[q].sent = <<error_message(q, ERR_UNKNOWN_ERROR, MsgIntegrationNotFound)>>

(***************************************************************************)
(* C16: every removal that is suspended at the integration load or at the  *)
(* hook ends, with its one response, once these return; a removal only     *)
(* moves forward (idle, load, hook, done), never back to an earlier step,  *)
(* and whether it can move depends on no other request.                    *)
(***************************************************************************)
PcRank(pc) ==
    IF pc = "idle" THEN 0 ELSE IF pc = "load" THEN 1 ELSE IF pc = "hook" THEN 2 ELSE 3

WentThrough(r) ==
    /\ IsRemoval(req[r])
    /\ req[r].pc = "done"
    /\ req[r].trace = FullTrace
    /\ ~EndedWithError(req[r], r, ERR_HOME_ASSISTANT_ERROR, MsgRegistryError)

\* r and q are the only removals that called the registry for their device
PairOnDevice(r, q) ==
    /\ r # q
    /\ WentThrough(r) /\ WentThrough(q)
    /\ req[r].device_id = req[q].device_id
    /\ req[r].config_entry_id # req[q].config_entry_id
    /\ \A o \in ReqIds \ {r, q} :
          ~(IsRemoval(req[o]) /\ req[o].device_id = req[r].device_id
            /\ CalledUpdate(req[o]))

\* r was answered with the device holding q's config entry alone, q with null
FirstThenSecond(r, q) ==
    /\ Succeeded(req[r]) /\ Succeeded(req[q])
    /\ Len(req[r].sent[1].result) = 1
    /\ req[r].sent[1].result[1].id = req[r].device_id
    /\ req[r].sent[1].result[1].config_entries = <<req[q].config_entry_id>>
    /\ req[q].sent[1].result = <<>>

C17_BothRemovalsSucceed ==
    \A r, q \in ReqIds :
        PairOnDevice(r, q) =>
            /\ req[r].device_id \notin DOMAIN devices
            /\ FirstThenSecond(r, q) \/ FirstThenSecond(q, r)

\* the removal with the higher id called the registry first and was answered
\* with the device, the one with the lower id was answered with null
C17_Witness ==
    \E r, q \in ReqIds :
        /\ q < r
        /\ PairOnDevice(r, q)
        /\ FirstThenSecond(r, q)
        /\ req[r].device_id \notin DOMAIN devices

(***************************************************************************)
(* C18: the registry call of a removal and the sending of its response are *)
(* one step; a success response with an entry carries the entry the        *)
(* registry has for the device at that moment, without the config entry    *)
(* removed, and a success response with null goes with the device not      *)
(* being in the registry.                                                  *)
(***************************************************************************)
C18_ResponseMatchesRegistry ==
    [][\A r \in ReqIds :
         MutationStep(r) =>
            LET d == req[r].device_id
                i == req[r].config_entry_id
                rq == req'[r]
            IN  /\ rq.pc = "done"
                /\ Len(rq.sent) = 1
                /\ rq.sent[1].success =>
                      IF rq.sent[1].result = <<>>
                      THEN d \notin DOMAIN devices'
                      ELSE /\ d \in DOMAIN devices'
                           /\ rq.sent[1].result = <<entry_dict(devices'[d])>>
                           /\ i \notin devices'[d].config_entries
                           /\ \A n \in 1..Len(rq.sent[1].result[1].config_entries) :
                                 rq.sent[1].result[1].config_entries[n] # i]_vars

\* a removal was answered with null and another one with the entry of a
\* device that is in the registry
C18_Witness ==
    \E r, q \in ReqIds :
        /\ IsRemoval(req[r]) /\ IsRemoval(req[q])
        /\ CalledUpdate(req[r]) /\ CalledUpdate(req[q])
        /\ Succeeded(req[r]) /\ Succeeded(req[q])
        /\ req[r].sent[1].result = <<>>
        /\ req[r].device_id \notin DOMAIN devices
        /\ req[q].device_id \in DOMAIN devices
        /\ req[q].sent[1].result = <<entry_dict(devices[req[q].device_id])>>

=============================================================================
